---- MODULE Spec2Model ----
(***************************************************************************)
(* Model of web/src/components/player/HlsVideoPlayer.tsx: the playback     *)
(* source selection and fallback, the transport commands, the frame        *)
(* upload and the control visibility logic of the HLS video player widget. *)
(*                                                                         *)
(* One widget lifetime is modelled: first render ("rendered"), commit and  *)
(* effects ("mounted"), teardown ("unmounted").  React state set by a      *)
(* handler is visible to the next render; the source-load effect that a    *)
(* changed useHlsCompat schedules runs in a later step (RunEffects), so    *)
(* sink events may be delivered in between.                                *)
(***************************************************************************)
EXTENDS Integers, Sequences, FiniteSets

\* ---- bounds of the model ----
MaxSources == 2
MaxRate == 2
MaxTime == 2
MaxDelta == 2
MaxTimers == 2
MaxUploads == 2
\* volume levels 0..VolumeSteps stand for 0.0..1.0
VolumeSteps == 2

\* ---- program constants ----
HideWindow == 4
MEDIA_ERR_ABORTED == 1
MEDIA_ERR_NETWORK == 2
MEDIA_ERR_DECODE == 3
MEDIA_ERR_SRC_NOT_SUPPORTED == 4
DefaultPlaybackRate == 1
HTTP_OK == 200
HTTP_ERROR == 500

\* mutant: a network error is classified as unsupported too
unsupportedErrorCodesWithNetwork ==
    {MEDIA_ERR_SRC_NOT_SUPPORTED, MEDIA_ERR_DECODE, MEDIA_ERR_NETWORK}

unsupportedErrorCodes == {MEDIA_ERR_SRC_NOT_SUPPORTED, MEDIA_ERR_DECODE}
ErrorCodes == {MEDIA_ERR_ABORTED, MEDIA_ERR_NETWORK, MEDIA_ERR_DECODE, MEDIA_ERR_SRC_NOT_SUPPORTED}

Sources == 1..MaxSources
Rates == 1..MaxRate
Deltas == (0 - MaxDelta)..MaxDelta
TimerIds == 1..MaxTimers
Volumes == 0..VolumeSteps
\* the volume of a fresh video element, and useOverlayState's default: 1.0
DefaultVolume == VolumeSteps
\* outcome of the frame submission: a response status, no response
\* (undefined), or a rejected promise
NoResponse == 0
Rejected == -1
Outcomes == {HTTP_OK, HTTP_ERROR, NoResponse, Rejected}

VARIABLES
    \* react-device-detect classification and host capabilities (static)
    isAndroid, isMobile, isDesktop, canPlayType, hlsSupported,
    \* props
    currentSource, visible,
    \* widget lifecycle; videoRef.current is set exactly while mounted
    phase,
    \* playback state
    useHlsCompat, loadedMetadata, effectPending,
    hlsRef, hlsCreated, hlsAttached, hlsSource,
    videoSrc, lastLoad, nativeLoaded, playbackRate,
    \* sink transport state
    paused, currentTime, seekTarget,
    \* controls state
    isPlaying, controls, controlsOpen, pointer, timers, mobileCtrlTimeout,
    \* frame upload
    inflight, outcomes, toasts,
    \* remembered mute and volume (overlay state) and the sink's own
    muted, volume, videoVolume, videoMuted,
    \* what the widget handed to its caller and its engine teardowns
    callerErrors, hlsDestroyed,
    \* the last event handled, with its argument (a settled upload also
    \* carries the source of its request)
    lastEvent

platformVars == <<isAndroid, isMobile, isDesktop, canPlayType, hlsSupported>>
playbackVars == <<useHlsCompat, loadedMetadata, effectPending, hlsRef, hlsCreated,
                  hlsAttached, hlsSource, videoSrc, lastLoad, nativeLoaded, playbackRate>>
loadVars == <<hlsRef, hlsCreated, hlsAttached, hlsSource, videoSrc, lastLoad,
              nativeLoaded, playbackRate, paused, currentTime>>
sinkVars == <<paused, currentTime, seekTarget>>
controlVars == <<isPlaying, controls, controlsOpen, pointer, timers, mobileCtrlTimeout>>
uploadVars == <<inflight, outcomes, toasts>>
volumeVars == <<muted, volume, videoVolume, videoMuted>>
extVars == <<callerErrors, hlsDestroyed>>
vars == <<platformVars, currentSource, visible, phase, playbackVars, sinkVars,
          controlVars, uploadVars, volumeVars, extVars, lastEvent>>

USE_NATIVE_HLS == ~isAndroid

videoRefCurrent == phase = "mounted"

Max(a, b) == IF a > b THEN a ELSE b
Min(a, b) == IF a < b THEN a ELSE b

\* ---- construction: the first render ----
InitWidget ==
    /\ phase = "rendered"
    /\ currentSource \in Sources
    /\ visible \in BOOLEAN
    /\ useHlsCompat = FALSE
    /\ loadedMetadata = FALSE
    /\ effectPending = FALSE
    /\ hlsRef = 0
    /\ hlsCreated = 0
    /\ hlsAttached = 0
    /\ hlsSource = 0
    /\ videoSrc = 0
    /\ lastLoad = "none"
    /\ nativeLoaded = FALSE
    /\ playbackRate = DefaultPlaybackRate
    /\ paused = TRUE
    /\ currentTime = 0
    /\ seekTarget = 0
    /\ isPlaying = TRUE
    /\ controls = isMobile
    /\ controlsOpen = FALSE
    /\ pointer = "unknown"
    /\ timers = [id \in TimerIds |-> -1]
    /\ mobileCtrlTimeout = 0
    /\ inflight = <<>>
    /\ videoVolume = DefaultVolume
    /\ videoMuted = FALSE
    /\ callerErrors = {}
    /\ hlsDestroyed = 0
    /\ outcomes = <<>>
    /\ toasts = <<>>
    /\ lastEvent = <<"render", 0>>

\* the playback-source controller, on every platform and host capability
Init ==
    /\ isAndroid \in BOOLEAN
    /\ canPlayType \in BOOLEAN
    /\ hlsSupported \in BOOLEAN
    /\ isMobile = FALSE
    /\ isDesktop = TRUE
    /\ InitWidget
    /\ visible = TRUE
    /\ muted = TRUE
    /\ volume = DefaultVolume

\* transport commands and frame upload, on a host with both playback paths
InitTransport ==
    /\ isAndroid = FALSE
    /\ canPlayType = TRUE
    /\ hlsSupported = TRUE
    /\ isMobile = FALSE
    /\ isDesktop = TRUE
    /\ InitWidget
    /\ visible = TRUE
    /\ muted = TRUE
    /\ volume = DefaultVolume

\* control visibility, on every device class
InitControls ==
    /\ isAndroid = FALSE
    /\ canPlayType = TRUE
    /\ hlsSupported = TRUE
    /\ isMobile \in BOOLEAN
    /\ isDesktop \in BOOLEAN
    /\ ~(isMobile /\ isDesktop)
    /\ InitWidget
    /\ muted = TRUE
    /\ volume = DefaultVolume

\* volume and mute, with any remembered values of an earlier mount
InitVolume ==
    /\ isAndroid = FALSE
    /\ canPlayType = TRUE
    /\ hlsSupported = TRUE
    /\ isMobile = FALSE
    /\ isDesktop = TRUE
    /\ InitWidget
    /\ visible = TRUE
    /\ muted \in BOOLEAN
    /\ volume \in Volumes

\* ---- the media sink (HTMLVideoElement) and the engine (hls.js) ----

\* video.load(): the element's load algorithm resets the rate to the default
VideoLoadRate(rate) == DefaultPlaybackRate

\* hls.loadSource()/attachMedia(): the engine may re-attach the element, which
\* runs the element's load algorithm (reset), or leave it alone
HlsLoadRate(rate, reset) == IF reset THEN DefaultPlaybackRate ELSE rate

\* mutant: the check for an existing engine is dropped
NeedsEngineAlways(ref) == TRUE

\* mutant: the check is inverted, so no engine is ever constructed
NeedsEngineNever(ref) == FALSE

\* if (!hlsRef.current): an engine is constructed only when none exists
NeedsEngine(ref) == ref = 0

\* mutant: the saved rate is not written back after the load
RestoreRateMissing(sinkRate, saved) == sinkRate

\* videoRef.current.playbackRate = currentPlaybackRate
RestoreRate(sinkRate, saved) == saved

\* ---- source-load effect, deps [videoRef, hlsRef, useHlsCompat, currentSource] ----
SourceLoadEffect(compat, src) ==
    LET currentPlaybackRate == playbackRate IN
    IF ~compat
    THEN /\ videoSrc' = src
         /\ playbackRate' = VideoLoadRate(playbackRate)
         /\ paused' = TRUE
         /\ currentTime' = 0
         /\ lastLoad' = "native"
         /\ nativeLoaded' = TRUE
         /\ UNCHANGED <<hlsRef, hlsCreated, hlsAttached, hlsSource>>
    ELSE /\ IF NeedsEngine(hlsRef)
            THEN /\ hlsRef' = hlsCreated + 1
                 /\ hlsCreated' = hlsCreated + 1
                 /\ hlsAttached' = hlsAttached + 1
            ELSE UNCHANGED <<hlsRef, hlsCreated, hlsAttached>>
         /\ hlsSource' = src
         /\ \E reset \in BOOLEAN :
               /\ paused' = (reset \/ paused)
               /\ currentTime' = (IF reset THEN 0 ELSE currentTime)
               /\ LET afterLoad == HlsLoadRate(playbackRate, reset)
                  IN  playbackRate' = RestoreRate(afterLoad, currentPlaybackRate)
         /\ lastLoad' = "engine"
         /\ UNCHANGED <<videoSrc, nativeLoaded>>

\* mutant: the detection ignores the native capability probe
DetectCompatNoProbe ==
    IF hlsSupported THEN TRUE ELSE useHlsCompat

\* ---- capability-detection effect, deps [videoRef] ----
DetectCompat ==
    IF USE_NATIVE_HLS /\ canPlayType
    THEN useHlsCompat
    ELSE IF hlsSupported THEN TRUE ELSE useHlsCompat

\* commit of the first render: the ref is set, then both effects run with the
\* values of the first render (useHlsCompat = false)
Mount ==
    /\ phase = "rendered"
    /\ phase' = "mounted"
    /\ useHlsCompat' = DetectCompat
    /\ effectPending' = (DetectCompat # useHlsCompat)
    /\ SourceLoadEffect(useHlsCompat, currentSource)
    /\ videoMuted' = muted
    /\ lastEvent' = <<"mount", 0>>
    /\ UNCHANGED <<platformVars, currentSource, visible, loadedMetadata, seekTarget,
                   controlVars, uploadVars, muted, volume, videoVolume, extVars>>

\* mutant: useHlsCompat is missing from the effect's deps, so the re-render
\* after a mode switch does not run the source-load effect
RunEffectsWithoutModeDep ==
    /\ phase = "mounted"
    /\ effectPending
    /\ effectPending' = FALSE
    /\ lastEvent' = <<"effects", 0>>
    /\ UNCHANGED <<platformVars, currentSource, visible, phase, useHlsCompat,
                   loadedMetadata, loadVars, seekTarget, controlVars, uploadVars,
                   volumeVars, extVars>>

\* re-render after a useHlsCompat update: the source-load effect runs again
RunEffects ==
    /\ phase = "mounted"
    /\ effectPending
    /\ effectPending' = FALSE
    /\ SourceLoadEffect(useHlsCompat, currentSource)
    /\ lastEvent' = <<"effects", 0>>
    /\ UNCHANGED <<platformVars, currentSource, visible, phase, useHlsCompat,
                   loadedMetadata, seekTarget, controlVars, uploadVars, volumeVars, extVars>>

\* the caller supplies a new currentSource: render and source-load effect
SourceChange(src) ==
    /\ phase = "mounted"
    /\ src # currentSource
    /\ currentSource' = src
    /\ effectPending' = FALSE
    /\ SourceLoadEffect(useHlsCompat, src)
    /\ lastEvent' = <<"source", src>>
    /\ UNCHANGED <<platformVars, visible, phase, useHlsCompat, loadedMetadata,
                   seekTarget, controlVars, uploadVars, volumeVars, extVars>>

\* mutant: the fallback leaves the metadata-loaded flag set
OnErrorKeepsFrame(code) ==
    /\ phase = "mounted"
    /\ IF hlsRef = 0 /\ code \in unsupportedErrorCodes /\ videoRefCurrent
       THEN /\ useHlsCompat' = TRUE
            /\ effectPending' = (effectPending \/ ~useHlsCompat)
            /\ UNCHANGED loadedMetadata
       ELSE UNCHANGED <<loadedMetadata, useHlsCompat, effectPending>>
    /\ lastEvent' = <<"error", code>>
    /\ UNCHANGED <<platformVars, currentSource, visible, phase, loadVars,
                   seekTarget, controlVars, uploadVars, volumeVars, extVars>>

\* <video onError>
OnError(code) ==
    /\ phase = "mounted"
    /\ IF hlsRef = 0 /\ code \in unsupportedErrorCodes /\ videoRefCurrent
       THEN /\ loadedMetadata' = FALSE
            /\ useHlsCompat' = TRUE
            /\ effectPending' = (effectPending \/ ~useHlsCompat)
       ELSE UNCHANGED <<loadedMetadata, useHlsCompat, effectPending>>
    /\ lastEvent' = <<"error", code>>
    /\ UNCHANGED <<platformVars, currentSource, visible, phase, loadVars,
                   seekTarget, controlVars, uploadVars, volumeVars, extVars>>

\* if (videoRef.current && volume) videoRef.current.volume = volume
RestoreVolume(remembered, sinkVolume) ==
    IF videoRefCurrent /\ remembered # 0 THEN remembered ELSE sinkVolume

\* <video onLoadedMetadata> -> handleLoadedMetadata, then the volume restore
OnLoadedMetadata ==
    /\ phase = "mounted"
    /\ lastLoad # "none"
    /\ loadedMetadata' = TRUE
    /\ videoVolume' = RestoreVolume(volume, videoVolume)
    /\ lastEvent' = <<"loadedmetadata", 0>>
    /\ UNCHANGED <<platformVars, currentSource, visible, phase, useHlsCompat,
                   effectPending, loadVars, seekTarget, controlVars, uploadVars,
                   muted, volume, videoMuted, extVars>>

\* teardown: the ref is cleared and the mousemove listener removed
Unmount ==
    /\ phase = "mounted"
    /\ phase' = "unmounted"
    /\ effectPending' = FALSE
    /\ lastEvent' = <<"unmount", 0>>
    /\ UNCHANGED <<platformVars, currentSource, visible, useHlsCompat, loadedMetadata,
                   loadVars, seekTarget, controlVars, uploadVars, volumeVars, extVars>>

\* ---- transport commands and sink events ----
Duration == MaxTime

FreeTimerIds == {id \in TimerIds : timers[id] = -1 /\ id # mobileCtrlTimeout}
NewTimerId == CHOOSE id \in FreeTimerIds : \A other \in FreeTimerIds : id <= other

\* <video onPlay>
PlayHandler ==
    /\ isPlaying' = TRUE
    /\ IF isMobile
       THEN /\ FreeTimerIds # {}
            /\ controls' = TRUE
            /\ timers' = [timers EXCEPT ![NewTimerId] = HideWindow]
            /\ mobileCtrlTimeout' = NewTimerId
       ELSE UNCHANGED <<controls, timers, mobileCtrlTimeout>>
    /\ UNCHANGED <<controlsOpen, pointer>>

\* <video onPause>
PauseHandler ==
    /\ isPlaying' = FALSE
    /\ IF isMobile /\ mobileCtrlTimeout # 0
       THEN timers' = [timers EXCEPT ![mobileCtrlTimeout] = -1]
       ELSE UNCHANGED timers
    /\ UNCHANGED <<controls, controlsOpen, pointer, mobileCtrlTimeout>>

\* VideoControls onPlayPause(play): video.play() / video.pause(), and the
\* play or pause event the sink emits when its paused attribute changes
OnPlayPause(play) ==
    /\ IF ~videoRefCurrent
       THEN UNCHANGED <<paused, controlVars>>
       ELSE IF play
            THEN /\ paused' = FALSE
                 /\ IF paused THEN PlayHandler ELSE UNCHANGED controlVars
            ELSE /\ paused' = TRUE
                 /\ IF ~paused THEN PauseHandler ELSE UNCHANGED controlVars
    /\ lastEvent' = <<"playPause", IF play THEN 1 ELSE 0>>
    /\ UNCHANGED <<platformVars, currentSource, visible, phase, playbackVars,
                   currentTime, seekTarget, uploadVars, volumeVars, extVars>>

\* the autoPlay attribute: after a load the sink starts playing by itself and
\* emits play (the load paused it without a pause event)
Autoplay ==
    /\ phase = "mounted"
    /\ lastLoad # "none"
    /\ paused
    /\ paused' = FALSE
    /\ PlayHandler
    /\ lastEvent' = <<"play", 0>>
    /\ UNCHANGED <<platformVars, currentSource, visible, phase, playbackVars,
                   currentTime, seekTarget, uploadVars, volumeVars, extVars>>

\* playback advances
TimeUpdate ==
    /\ phase = "mounted"
    /\ ~paused
    /\ currentTime < Duration
    /\ currentTime' = currentTime + 1
    /\ lastEvent' = <<"timeupdate", 0>>
    /\ UNCHANGED <<platformVars, currentSource, visible, phase, playbackVars,
                   paused, seekTarget, controlVars, uploadVars, volumeVars, extVars>>

\* the value onSeek assigns to videoRef.current.currentTime
SeekTime(time, diff) == Max(0, time + diff)

\* VideoControls onSeek(diff); the sink clamps the assigned time to the duration
OnSeek(diff) ==
    /\ IF ~videoRefCurrent \/ currentTime = 0
       THEN UNCHANGED <<currentTime, seekTarget>>
       ELSE /\ seekTarget' = SeekTime(currentTime, diff)
            /\ currentTime' = Min(Duration, SeekTime(currentTime, diff))
    /\ lastEvent' = <<"seek", diff>>
    /\ UNCHANGED <<platformVars, currentSource, visible, phase, playbackVars,
                   paused, controlVars, uploadVars, volumeVars, extVars>>

\* mutant: the rate is written without checking that a sink is attached
OnSetPlaybackRateUnchecked(rate) ==
    /\ playbackRate' = rate
    /\ lastEvent' = <<"rate", rate>>
    /\ UNCHANGED <<platformVars, currentSource, visible, phase, useHlsCompat,
                   loadedMetadata, effectPending, hlsRef, hlsCreated, hlsAttached,
                   hlsSource, videoSrc, lastLoad, nativeLoaded, sinkVars,
                   controlVars, uploadVars, volumeVars, extVars>>

\* VideoControls onSetPlaybackRate(rate)
OnSetPlaybackRate(rate) ==
    /\ playbackRate' = (IF videoRefCurrent THEN rate ELSE playbackRate)
    /\ lastEvent' = <<"rate", rate>>
    /\ UNCHANGED <<platformVars, currentSource, visible, phase, useHlsCompat,
                   loadedMetadata, effectPending, hlsRef, hlsCreated, hlsAttached,
                   hlsSource, videoSrc, lastLoad, nativeLoaded, sinkVars,
                   controlVars, uploadVars, volumeVars, extVars>>

\* ---- control visibility ----

\* mutant: the pinned-open flag is left out of show
ShowWithoutPin == visible /\ controls

\* VideoControls show={visible && (controls || controlsOpen)}
Show == visible /\ (controls \/ controlsOpen)

\* the window mousemove listener registered by the effect with deps
\* [videoRef, controlsOpen]; inside = the pointer is within the video's rect
MouseMove(inside) ==
    /\ isDesktop
    /\ phase = "mounted"
    /\ controls' = (IF inside THEN TRUE ELSE controlsOpen)
    /\ pointer' = (IF inside THEN "inside" ELSE "outside")
    /\ lastEvent' = <<"mousemove", IF inside THEN 1 ELSE 0>>
    /\ UNCHANGED <<platformVars, currentSource, visible, phase, playbackVars,
                   sinkVars, isPlaying, controlsOpen, timers, mobileCtrlTimeout,
                   uploadVars, volumeVars, extVars>>

\* VideoControls setControlsOpen(open): the pinned-open flag
SetControlsOpen(open) ==
    /\ phase = "mounted"
    /\ open # controlsOpen
    /\ controlsOpen' = open
    /\ lastEvent' = <<"controlsOpen", IF open THEN 1 ELSE 0>>
    /\ UNCHANGED <<platformVars, currentSource, visible, phase, playbackVars,
                   sinkVars, isPlaying, controls, pointer, timers,
                   mobileCtrlTimeout, uploadVars, volumeVars, extVars>>

\* wrapperProps onClick (not registered on desktop): tap on the video surface
Tap ==
    /\ ~isDesktop
    /\ phase = "mounted"
    /\ controls' = ~controls
    /\ lastEvent' = <<"tap", 0>>
    /\ UNCHANGED <<platformVars, currentSource, visible, phase, playbackVars,
                   sinkVars, isPlaying, controlsOpen, pointer, timers,
                   mobileCtrlTimeout, uploadVars, volumeVars, extVars>>

\* the caller changes the visible prop
SetVisible(v) ==
    /\ phase = "mounted"
    /\ v # visible
    /\ visible' = v
    /\ lastEvent' = <<"visible", IF v THEN 1 ELSE 0>>
    /\ UNCHANGED <<platformVars, currentSource, phase, playbackVars, sinkVars,
                   controlVars, uploadVars, volumeVars, extVars>>

PendingTimers == {id \in TimerIds : timers[id] >= 0}

\* one second passes; a timer that is due fires before more time passes
Tick ==
    /\ PendingTimers # {}
    /\ \A id \in PendingTimers : timers[id] > 0
    /\ timers' = [id \in TimerIds |-> IF timers[id] > 0 THEN timers[id] - 1 ELSE timers[id]]
    /\ lastEvent' = <<"tick", 0>>
    /\ UNCHANGED <<platformVars, currentSource, visible, phase, playbackVars,
                   sinkVars, isPlaying, controls, controlsOpen, pointer,
                   mobileCtrlTimeout, uploadVars, volumeVars, extVars>>

\* setTimeout(() => setControls(false), 4000) fires; React drops the update of
\* an unmounted component
TimerFire(id) ==
    /\ timers[id] = 0
    /\ timers' = [timers EXCEPT ![id] = -1]
    /\ controls' = (IF phase = "mounted" THEN FALSE ELSE controls)
    /\ lastEvent' = <<"hideTimer", id>>
    /\ UNCHANGED <<platformVars, currentSource, visible, phase, playbackVars,
                   sinkVars, isPlaying, controlsOpen, pointer, mobileCtrlTimeout,
                   uploadVars, volumeVars, extVars>>

\* ---- volume and mute ----

\* <video onVolumeChange>: setVolume(videoRef.current?.volume ?? 1.0, true)
OnVolumeChange(sinkVolume) ==
    IF videoRefCurrent THEN sinkVolume ELSE DefaultVolume

\* VideoControls setMuted(m) -> setMuted(m, true); the render writes the
\* muted prop to the sink, which emits volumechange when its muted changes
SetMuted(m) ==
    /\ phase = "mounted"
    /\ m # muted
    /\ muted' = m
    /\ videoMuted' = m
    /\ volume' = (IF videoMuted # m THEN OnVolumeChange(videoVolume) ELSE volume)
    /\ lastEvent' = <<"muted", IF m THEN 1 ELSE 0>>
    /\ UNCHANGED <<platformVars, currentSource, visible, phase, playbackVars,
                   sinkVars, controlVars, uploadVars, videoVolume, extVars>>

\* setVolume(value): the value is assigned to the sink, which emits
\* volumechange
SetVolume(v) ==
    /\ phase = "mounted"
    /\ v # videoVolume
    /\ videoVolume' = v
    /\ volume' = OnVolumeChange(v)
    /\ lastEvent' = <<"volume", v>>
    /\ UNCHANGED <<platformVars, currentSource, visible, phase, playbackVars,
                   sinkVars, controlVars, uploadVars, muted, videoMuted, extVars>>

\* ---- frame upload ----
ToastSubmitted == [level |-> "success", text |-> "Successfully submitted frame to Frigate+"]
ToastFailed == [level |-> "success", text |-> "Failed to submit frame to Frigate+"]

\* VideoControls onUploadFrame, up to the await; hasProp = the caller passed
\* an onUploadFrame prop.  A request in flight is recorded with the source
\* that was current when the frame was submitted.
UploadFrame(hasProp) ==
    /\ Len(inflight) + Len(outcomes) < MaxUploads
    /\ inflight' = (IF videoRefCurrent /\ hasProp
                    THEN Append(inflight, currentSource)
                    ELSE inflight)
    /\ lastEvent' = <<"upload", IF hasProp THEN 1 ELSE 0>>
    /\ UNCHANGED <<platformVars, currentSource, visible, phase, playbackVars,
                   sinkVars, controlVars, outcomes, toasts, volumeVars, extVars>>

\* the toasts after the awaited submission settled with outcome
UploadToasts(outcome) ==
    IF outcome = Rejected
    THEN toasts
    ELSE IF outcome # NoResponse /\ outcome = HTTP_OK
         THEN Append(toasts, ToastSubmitted)
         ELSE Append(toasts, ToastFailed)

\* mutant: the response handler pauses the sink
UploadSettlePausing(outcome) ==
    /\ inflight # <<>>
    /\ inflight' = Tail(inflight)
    /\ outcomes' = Append(outcomes, outcome)
    /\ toasts' = UploadToasts(outcome)
    /\ paused' = TRUE
    /\ lastEvent' = <<"uploadSettled", outcome, Head(inflight)>>
    /\ UNCHANGED <<platformVars, currentSource, visible, phase, playbackVars,
                   currentTime, seekTarget, controlVars, volumeVars, extVars>>

\* the rest of onUploadFrame, after the await: the oldest request settles
UploadSettle(outcome) ==
    /\ inflight # <<>>
    /\ inflight' = Tail(inflight)
    /\ outcomes' = Append(outcomes, outcome)
    /\ toasts' = UploadToasts(outcome)
    /\ lastEvent' = <<"uploadSettled", outcome, Head(inflight)>>
    /\ UNCHANGED <<platformVars, currentSource, visible, phase, playbackVars,
                   sinkVars, controlVars, volumeVars, extVars>>

\* ---- specifications ----
\* The three controllers own disjoint parts of the state; each specification
\* takes the actions that write the state its properties read.

\* playback-source selection and fallback
Next ==
    \/ Mount
    \/ RunEffects
    \/ \E src \in Sources : SourceChange(src)
    \/ \E code \in ErrorCodes : OnError(code)
    \/ OnLoadedMetadata
    \/ \E rate \in Rates : OnSetPlaybackRate(rate)
    \/ \E play \in BOOLEAN : OnPlayPause(play)
    \/ Autoplay
    \/ Unmount

Spec == Init /\ [][Next]_vars

\* React runs the effects of a scheduled re-render as long as the widget
\* stays mounted
SpecLive == Spec /\ WF_vars(RunEffects)

\* transport commands, interleaved with source changes
NextTransport ==
    \/ Mount
    \/ \E src \in Sources : SourceChange(src)
    \/ \E play \in BOOLEAN : OnPlayPause(play)
    \/ Autoplay
    \/ TimeUpdate
    \/ \E diff \in Deltas : OnSeek(diff)
    \/ \E rate \in Rates : OnSetPlaybackRate(rate)
    \/ Unmount

SpecTransport == InitTransport /\ [][NextTransport]_vars

\* the four control operations before the sink is attached, while it is
\* attached and after it is detached
NextCommands ==
    \/ Mount
    \/ Autoplay
    \/ TimeUpdate
    \/ \E play \in BOOLEAN : OnPlayPause(play)
    \/ \E diff \in Deltas : OnSeek(diff)
    \/ \E rate \in Rates : OnSetPlaybackRate(rate)
    \/ \E hasProp \in BOOLEAN : UploadFrame(hasProp)
    \/ UploadSettle(HTTP_OK)
    \/ Unmount

SpecCommands == InitTransport /\ [][NextCommands]_vars

\* frame upload, interleaved with source changes, the error fallback,
\* playback commands and pointer moves
NextUpload ==
    \/ Mount
    \/ RunEffects
    \/ \E src \in Sources : SourceChange(src)
    \/ OnError(MEDIA_ERR_DECODE)
    \/ \E play \in BOOLEAN : OnPlayPause(play)
    \/ Autoplay
    \/ \E inside \in BOOLEAN : MouseMove(inside)
    \/ \E hasProp \in BOOLEAN : UploadFrame(hasProp)
    \/ \E outcome \in Outcomes : UploadSettle(outcome)
    \/ Unmount

SpecUpload == InitTransport /\ [][NextUpload]_vars

\* control visibility: pointer, pin, tap and the mobile hide timer
NextControls ==
    \/ Mount
    \/ \E src \in Sources : SourceChange(src)
    \/ \E play \in BOOLEAN : OnPlayPause(play)
    \/ Autoplay
    \/ \E inside \in BOOLEAN : MouseMove(inside)
    \/ \E open \in BOOLEAN : SetControlsOpen(open)
    \/ Tap
    \/ \E v \in BOOLEAN : SetVisible(v)
    \/ Tick
    \/ \E id \in TimerIds : TimerFire(id)
    \/ Unmount

SpecControls == InitControls /\ [][NextControls]_vars

\* remembered volume and mute, and their restore on metadata load
NextVolume ==
    \/ Mount
    \/ \E src \in Sources : SourceChange(src)
    \/ OnLoadedMetadata
    \/ \E m \in BOOLEAN : SetMuted(m)
    \/ \E v \in Volumes : SetVolume(v)
    \/ \E play \in BOOLEAN : OnPlayPause(play)
    \/ Unmount

SpecVolume == InitVolume /\ [][NextVolume]_vars

\* ---- properties ----

\* C1: on the platform excluded from native HLS (Android) the mode is
\* CompatibilityEngine from the first attach on and no source is ever loaded
\* natively on the sink, whatever canPlayType reports.
C1_AndroidNeverNative ==
    (isAndroid /\ phase # "rendered") => (useHlsCompat /\ ~nativeLoaded)

\* C2: the mode never leaves CompatibilityEngine (so the fallback happens at
\* most once), at most one engine is ever constructed and attached, and an
\* error received after the fallback changes neither the mode nor the engine.
C2_FallbackOnce ==
    [][ /\ (useHlsCompat => useHlsCompat')
        /\ hlsCreated' <= 1
        /\ hlsAttached' <= 1
        /\ (lastEvent'[1] = "error" /\ useHlsCompat)
              => UNCHANGED <<useHlsCompat, hlsRef, hlsCreated, hlsAttached>> ]_vars

\* a decode error was delivered after the error fallback had constructed the engine
C2_Witness ==
    /\ USE_NATIVE_HLS /\ canPlayType
    /\ lastEvent = <<"error", MEDIA_ERR_DECODE>>
    /\ useHlsCompat
    /\ hlsCreated = 1
    /\ hlsAttached = 1

\* C3: a source change in CompatibilityEngine mode loads the new source
\* through the engine and leaves the sink's playback rate as it was.
C3_CompatRatePreserved ==
    [][ (useHlsCompat /\ currentSource' # currentSource)
            => /\ lastLoad' = "engine"
               /\ hlsSource' = currentSource'
               /\ playbackRate' = playbackRate ]_vars

\* a source was loaded through the engine at a rate other than the default
C3_Witness ==
    /\ lastEvent[1] = "source"
    /\ useHlsCompat
    /\ lastLoad = "engine"
    /\ hlsSource = currentSource
    /\ playbackRate # DefaultPlaybackRate

\* C4: a source change in NativeDirect mode assigns the new source to the
\* sink, reloads, and leaves the sink's playback rate as it was.
C4_NativeRatePreserved ==
    [][ (~useHlsCompat /\ currentSource' # currentSource)
            => /\ lastLoad' = "native"
               /\ videoSrc' = currentSource'
               /\ playbackRate' = playbackRate ]_vars

\* C5: with a sink attached, seekBy(d) at time t assigns max(0, t + d) to the
\* sink's current time, for every t >= 0.
C5_SeekClamped ==
    [][ (phase = "mounted" /\ lastEvent'[1] = "seek")
            => /\ seekTarget' = Max(0, currentTime + lastEvent'[2])
               /\ seekTarget' >= 0
               /\ currentTime' = Min(Duration, seekTarget') ]_vars

\* C6: on mobile, while mounted, a pause event leaves no hide timer pending,
\* and a hide timer that fires is the one armed by the latest play event, with
\* no pause since, and hides the controls.
C6_HideTimer ==
    [][ (isMobile /\ phase = "mounted")
            => /\ (lastEvent' = <<"playPause", 0>> /\ isPlaying /\ ~isPlaying')
                     => \A id \in TimerIds : timers'[id] = -1
               /\ \A id \in TimerIds :
                     (lastEvent' = <<"hideTimer", id>>)
                         => (id = mobileCtrlTimeout /\ isPlaying /\ ~controls') ]_vars

\* C7: on desktop, mounted and visible, the controls are shown iff the
\* pointer's last known position is inside the video or the pin is set.
C7_DesktopShown ==
    (isDesktop /\ phase = "mounted" /\ visible)
        => (Show <=> (pointer = "inside" \/ controlsOpen))

\* C8: every settled frame submission has emitted exactly one notification:
\* the success text for status 200, the failure text for every other outcome.
C8_OneNotification ==
    /\ Len(toasts) = Len(outcomes)
    /\ \A i \in 1..Len(outcomes) :
          i <= Len(toasts)
             => toasts[i].text = (IF outcomes[i] = HTTP_OK
                                  THEN ToastSubmitted.text
                                  ELSE ToastFailed.text)

\* C9: the start of a frame submission and the arrival of its response leave
\* the playing/paused state, the mode, the loaded source, the engine handle,
\* the playback position and rate and the control visibility unchanged.
C9_UploadLeavesPlayback ==
    [][ (inflight' # inflight \/ lastEvent'[1] \in {"upload", "uploadSettled"})
            => UNCHANGED <<paused, isPlaying, useHlsCompat, loadedMetadata,
                           currentSource, videoSrc, hlsSource, hlsRef, hlsCreated,
                           lastLoad, playbackRate, currentTime, controls,
                           controlsOpen, visible>> ]_vars

\* a response arrived after the source had changed and the mode had switched
\* to CompatibilityEngine since the frame was submitted
C9_Witness ==
    /\ lastEvent[1] = "uploadSettled"
    /\ lastEvent[3] # currentSource
    /\ useHlsCompat
    /\ hlsSource = currentSource
    /\ ~paused

\* C10: the mode changes only from NativeDirect to CompatibilityEngine, and
\* only in the capability detection at mount (never when the platform allows
\* native HLS and the sink reports support) or on a decode/format error; a
\* source change never changes it.
C10_ModeChanges ==
    [][ /\ (useHlsCompat' # useHlsCompat)
              => /\ ~useHlsCompat
                 /\ useHlsCompat'
                 /\ \/ (lastEvent'[1] = "mount" /\ ~(USE_NATIVE_HLS /\ canPlayType))
                    \/ (lastEvent'[1] = "error" /\ lastEvent'[2] \in unsupportedErrorCodes)
        /\ (currentSource' # currentSource) => (useHlsCompat' = useHlsCompat) ]_vars

\* native support on a platform that allows it: still NativeDirect after a
\* source change that followed a network error
C10_Witness ==
    /\ USE_NATIVE_HLS /\ canPlayType
    /\ lastEvent[1] = "source"
    /\ ~useHlsCompat
    /\ lastLoad = "native"
    /\ videoSrc = currentSource
    /\ loadedMetadata

\* C11 (as claimed): in every state the engine handle exists iff the mode is
\* CompatibilityEngine.
C11_EngineIffCompat ==
    (hlsRef # 0) <=> useHlsCompat

\* C11 (amended): an engine exists only in CompatibilityEngine mode, and in
\* that mode it exists once the widget is mounted and the source-load effect
\* scheduled by the mode switch has run.
C11_EngineOnlyInCompat ==
    /\ (hlsRef # 0) => useHlsCompat
    /\ (useHlsCompat /\ phase = "mounted" /\ ~effectPending) => (hlsRef # 0)

\* the mode has switched on an error and the source-load effect has not run
\* yet: CompatibilityEngine without an engine
C11_Witness ==
    /\ lastEvent[1] = "error"
    /\ phase = "mounted"
    /\ useHlsCompat
    /\ effectPending
    /\ hlsRef = 0

\* C12: on every device class the controls are not shown while visible is
\* false, and while visible is true and the pin is set they are shown,
\* whatever the pointer, the taps and the hide timer did.
C12_VisibleGatesPinForces ==
    /\ ~visible => ~Show
    /\ (visible /\ controlsOpen) => Show

\* mobile: the hide timer fired while the pin was set; controls is false and
\* the controls are still shown
C12_Witness ==
    /\ isMobile
    /\ phase = "mounted"
    /\ lastEvent[1] = "hideTimer"
    /\ visible
    /\ controlsOpen
    /\ ~controls
    /\ Show

\* C13: setting mute leaves the remembered volume alone, setting the volume
\* leaves the remembered mute alone, and a metadata load with a sink attached
\* leaves the sink at the remembered volume, for every remembered volume.
C13_VolumeMuteIndependent ==
    [][ /\ (lastEvent'[1] = "muted") => (volume' = volume)
        /\ (lastEvent'[1] = "volume") => (muted' = muted)
        /\ (lastEvent'[1] = "loadedmetadata" /\ phase = "mounted")
              => (videoVolume' = volume /\ volume' = volume) ]_vars

\* C14: on mobile at most one hide timer is pending, and none is pending
\* after a pause event (isPlaying is false) or after unmount.
C14_NoStaleTimer ==
    isMobile =>
        /\ Cardinality(PendingTimers) <= 1
        /\ ~isPlaying => PendingTimers = {}
        /\ phase = "unmounted" => PendingTimers = {}

\* C15: a decode or format error that arrives when the mode is already
\* CompatibilityEngine is handed to the hosting caller.
C15_LateErrorPropagated ==
    [][ (/\ lastEvent'[1] = "error"
         /\ lastEvent'[2] \in {MEDIA_ERR_SRC_NOT_SUPPORTED, MEDIA_ERR_DECODE}
         /\ useHlsCompat)
            => lastEvent'[2] \in callerErrors' ]_vars

\* C16: a sink error whose code is neither format-not-supported nor
\* decode-error leaves the mode, the engine handle and the metadata-loaded
\* flag unchanged and schedules no source-load effect.
C16_OtherCodesIgnored ==
    [][ (/\ lastEvent'[1] = "error"
         /\ lastEvent'[2] \notin {MEDIA_ERR_SRC_NOT_SUPPORTED, MEDIA_ERR_DECODE})
            => UNCHANGED <<useHlsCompat, hlsRef, hlsCreated, hlsAttached,
                           loadedMetadata, effectPending>> ]_vars

\* a network error arrived in NativeDirect mode with the metadata loaded and
\* no engine: nothing changed
C16_Witness ==
    /\ lastEvent = <<"error", MEDIA_ERR_NETWORK>>
    /\ phase = "mounted"
    /\ ~useHlsCompat
    /\ hlsRef = 0
    /\ loadedMetadata
    /\ ~effectPending

\* C17: while no sink is attached, setPlaying, seekBy, setPlaybackRate and
\* submitCurrentFrame change nothing: no sink or engine state, no request in
\* flight (nothing submitted, nothing queued), no notification.
C17_NoSinkNoOp ==
    [][ (/\ ~videoRefCurrent
         /\ lastEvent'[1] \in {"playPause", "seek", "rate", "upload"})
            => UNCHANGED <<platformVars, currentSource, visible, phase,
                           playbackVars, sinkVars, controlVars, uploadVars,
                           volumeVars, extVars>> ]_vars

\* a frame submission was requested before the sink was attached: nothing is
\* in flight and nothing was notified
C17_Witness ==
    /\ phase = "rendered"
    /\ lastEvent = <<"upload", 1>>
    /\ inflight = <<>>
    /\ toasts = <<>>

\* C18: a format-not-supported or decode error in NativeDirect mode with no
\* engine clears the metadata-loaded flag, switches the mode and schedules
\* the source-load effect; that effect attaches the one engine to the sink;
\* and the flag is set again only by a loaded-metadata event.
C18_FallbackClearsAndAttaches ==
    [][ /\ (/\ lastEvent'[1] = "error"
            /\ lastEvent'[2] \in {MEDIA_ERR_SRC_NOT_SUPPORTED, MEDIA_ERR_DECODE}
            /\ ~useHlsCompat /\ hlsRef = 0)
               => (~loadedMetadata' /\ useHlsCompat' /\ effectPending')
        /\ (/\ useHlsCompat /\ effectPending
            /\ lastEvent'[1] \in {"effects", "source"})
               => (hlsRef' # 0 /\ hlsAttached' = 1 /\ ~effectPending')
        /\ (~loadedMetadata /\ loadedMetadata')
               => lastEvent'[1] = "loadedmetadata" ]_vars

\* where native HLS is allowed and supported: after an error fallback the
\* effect has attached the engine, and the flag is still cleared
C18_Witness ==
    /\ USE_NATIVE_HLS /\ canPlayType
    /\ lastEvent[1] = "effects"
    /\ useHlsCompat
    /\ hlsRef # 0
    /\ hlsAttached = 1
    /\ lastLoad = "engine"
    /\ ~loadedMetadata

\* C19: the engine is destroyed at teardown and not before: after unmount
\* every constructed engine has been destroyed, and before unmount none has.
C19_EngineDestroyedAtTeardown ==
    /\ phase = "unmounted" => hlsDestroyed = hlsCreated
    /\ phase # "unmounted" => hlsDestroyed = 0

LoadedThroughEngine == lastLoad = "engine" /\ hlsSource = currentSource

\* C20 (as claimed): once the mode is CompatibilityEngine with a sink
\* attached, the current source is eventually loaded through the engine.
C20_EventuallyThroughEngine ==
    (useHlsCompat /\ phase = "mounted") ~> LoadedThroughEngine

\* C20 (amended): once the mode is CompatibilityEngine with a sink attached,
\* the current source is eventually loaded through the engine unless the
\* widget is unmounted first; and every source change in that mode is loaded
\* through the engine only, with no assignment to the sink's src.
C20_ThroughEngineWhileMounted ==
    /\ (useHlsCompat /\ phase = "mounted")
          ~> (LoadedThroughEngine \/ phase = "unmounted")
    /\ [][ (useHlsCompat /\ currentSource' # currentSource)
              => /\ lastLoad' = "engine"
                 /\ hlsSource' = currentSource'
                 /\ videoSrc' = videoSrc
                 /\ nativeLoaded' = nativeLoaded ]_vars

\* the re-render after the mode switch loaded, through the engine, the very
\* source the sink had loaded natively before
C20_Witness ==
    /\ lastEvent[1] = "effects"
    /\ phase = "mounted"
    /\ useHlsCompat
    /\ LoadedThroughEngine
    /\ videoSrc = currentSource
====
